---- MODULE Spec2Model ----
(***************************************************************************)
(* Model of the sensor-side ingestion agent (sensor-suricata-client-rust). *)
(*                                                                         *)
(*  Spec     : the coalescing queue (queue.rs, EventBatchQueue) used by    *)
(*             concurrent parser workers (add) and by the watcher thread   *)
(*             (process_batch), with the wall clock read by both.          *)
(*  SpecUp   : the uploader task of main.rs and Client::stream_data,       *)
(*             its reconnection loop and the remote collector.             *)
(*  FairUp   : SpecUp with the fairness the tokio scheduler provides.      *)
(*  FairStream: FairUp with an open request stream that is polled.        *)
(*  SpecClose: SpecUp with a batch channel whose senders can be dropped.  *)
(*  SpecIn   : the listener (listener.rs), the raw-line channels and the  *)
(*             parser workers of main.rs adding to the queue.             *)
(*  SpecFull : SpecIn with one raw-line channel one line short of full.   *)
(*  SpecDown : the listener with accept errors and worker threads that    *)
(*             end, so that a send fails.                                 *)
(*  SpecHash : the workers normalizing alerts that differ in rule, time   *)
(*             and packet.                                                *)
(*  SpecMetrics: add against the one-second update_metrics tick.          *)
(*  SpecWatch: the watcher loop of main.rs, process_batch and the batch   *)
(*             channel; FairWatch adds fair scheduling of the workers.    *)
(***************************************************************************)
EXTENDS Integers, Sequences, FiniteSets, TLC

\* ---------------------------------------------------------------- bounds
NumWorkers == 2            \* parser workers running add concurrently
MaxAdds    == 2            \* add calls in one behaviour
MaxClock   == 2            \* the unix-second clock stops ticking here
NumHashes  == 2            \* distinct event_hash_sha256 values
MaxBatches == 2            \* batches the watcher produces in one behaviour
MaxLines   == 3            \* items the listener's reader produces in one behaviour
MaxOld     == 1            \* older lines a worker takes from its channel in one behaviour

Workers == 1..NumWorkers
Hashes  == 1..NumHashes

\* ------------------------------------------------------ program constants
ConnectBackoff == 2        \* seconds slept after Client::new fails
StreamBackoff  == 1        \* seconds slept after stream_data returns
BatchChannelCapacity == 100   \* mpsc::channel(100)
RawLineCapacity == 10000      \* sync_channel(10000)
conf_sensor_id == "sensor1"   \* conf.sensor_id

VARIABLES
  \* EventBatchQueue
  queue,                   \* HashMap<String, SensorEventRecord>, a function on the present keys
  delta,                   \* EventBatchQueue.delta
  lock,                    \* holder of the queue Mutex between two steps: Free or Drainer
  event_this_sec,
  batch_this_sec,
  total_sent_events,
  total_processed_events,
  \* environment
  clock,                   \* SystemTime::now() in unix seconds
  \* one add call per worker
  wpc, wnow, wevent,
  \* the process_batch call of the watcher thread
  dpc, dnow, old_queue, batch, total_metrics_count,
  \* history (not program state)
  nextId,                  \* identity of the next metric passed to add
  log,                     \* <<hash, metric>> in the order add's critical sections ran
  returned,                \* the events process_batch has returned to its caller
  drainFrom, drainTo,      \* Len(log) at the drain critical section before the last, and at the last
  \* uploader task
  upc, remote, backoff, failure, batch_rx, cur, sent,
  \* batch channel
  tx_open,                 \* a Sender of the batch channel exists
  rx_open,                 \* the Receiver of the batch channel exists
  \* history (not program state)
  produced,                \* batches the watcher has put on the batch channel
  taken,                   \* batches the request streams have received
  emitted,                 \* numbers of the batches yielded completely
  saw_none,                \* a request stream has read None from the batch channel
  \* listener thread
  lpc,                     \* "bind", "accept", "read" (inside a connection) or "ended"
  counter,                 \* the round-robin counter of the connection
  read_this_sec,
  \* raw-line channels and parser workers
  alert_rx,                \* the lines waiting in each worker's channel
  backlog,                 \* how many older lines wait in each channel in front of them
  alert_txs,               \* who holds the vector of SyncSenders
  wk,                      \* each worker: "recv" or "exited"
  \* history (not program state)
  nread,                   \* lines the listener's reader has produced
  routed,                  \* channel of every line enqueued on this connection
  handled,                 \* the lines the workers took, with what they added
  lost,                    \* the lines the listener read and could not enqueue
  accept_err,              \* an accept error has been logged
  \* metrics updater thread
  mpc,                     \* position in its 1-second turn
  event_count, batch_count, read_count,     \* the values its swaps returned
  latest_event_per_sec, latest_batch_per_sec, latest_read_per_sec,
  \* history (not program state)
  stored                   \* sum of the values stored to latest_event_per_sec

qvars == <<queue, delta, lock, event_this_sec, batch_this_sec, total_sent_events,
           total_processed_events, clock, wpc, wnow, wevent, dpc, dnow,
           old_queue, batch, total_metrics_count, nextId, log, returned,
           drainFrom, drainTo>>
uvars == <<upc, remote, backoff, failure, batch_rx, cur, sent, tx_open, rx_open, produced, taken,
           emitted, saw_none>>
ivars == <<lpc, counter, read_this_sec, alert_rx, backlog, alert_txs, wk, nread, routed,
           handled, lost, accept_err>>

mvars == <<mpc, event_count, batch_count, read_count, latest_event_per_sec,
           latest_batch_per_sec, latest_read_per_sec, stored>>

vars  == <<qvars, uvars, ivars, mvars>>

\* ------------------------------------------------------------ helpers
EmptyMap == [h \in {} |-> 0]

\* the holders of the queue Mutex
Free      == <<"free", 0>>
Drainer   == <<"drain", 0>>

RECURSIVE SumSeq(_)
SumSeq(s) == IF s = <<>> THEN 0 ELSE Head(s) + SumSeq(Tail(s))

\* every order in which an iteration over the set S can yield its elements
Orders(S) == {s \in [1..Cardinality(S) -> S] : \A i, j \in 1..Cardinality(S) : s[i] = s[j] => i = j}

Range(s) == {s[i] : i \in DOMAIN s}

\* --------------------------------------------------- SensorEvent (worker)
\* What a worker hands to add: the event built by the normalizer with the
\* one Metric pushed onto it; the hash stands for event_hash_sha256.
NewEvent(h, m) == [event_hash_sha256 |-> h, metrics |-> <<m>>, event_metrics_count |-> 1]
NoEvent == [event_hash_sha256 |-> 0, metrics |-> <<>>, event_metrics_count |-> 0]

\* --------------------------------------------------------- queue.rs: add
and_modify_drop(record, event, now) ==
  [record EXCEPT !.updated_at = now]
and_modify_prepend(record, event, now) ==
  [record EXCEPT !.payload.metrics = event.metrics \o @, !.updated_at = now]
and_modify_replace(record, event, now) ==
  [record EXCEPT !.payload.metrics = event.metrics, !.updated_at = now]
and_modify_keep_time(record, event, now) ==
  [record EXCEPT !.payload.metrics = @ \o event.metrics]
and_modify(record, event, now) ==
  [record EXCEPT !.payload.metrics = @ \o event.metrics, !.updated_at = now]

or_insert_with(event, now) ==
  [payload |-> event, created_at |-> now, updated_at |-> now]

entry(q, key, event, now) ==
  IF key \in DOMAIN q
  THEN [q EXCEPT ![key] = and_modify(@, event, now)]
  ELSE [h \in DOMAIN q \cup {key} |-> IF h = key THEN or_insert_with(event, now) ELSE q[h]]

\* The hash of the next event: one that an earlier event had, or the next
\* unused one (hashes are opaque, so the k-th distinct hash is named k).
Seen == {log[i][1] : i \in DOMAIN log} \cup {wevent[w].event_hash_sha256 : w \in Workers}
FreshOrSeen == {h \in Hashes : h = 1 \/ h - 1 \in Seen}

\* add, line 43-50: read the clock, take the key
AddReadClock(w) ==
  /\ wpc[w] = "idle"
  /\ \A v \in Workers : v < w => wpc[v] # "idle"   \* idle workers are alike: the first one takes the line
  /\ nextId <= MaxAdds
  /\ \E h \in FreshOrSeen :
       wevent' = [wevent EXCEPT ![w] = NewEvent(h, nextId)]
  /\ wnow' = [wnow EXCEPT ![w] = clock]
  /\ nextId' = nextId + 1
  /\ wpc' = [wpc EXCEPT ![w] = "a_lock"]
  /\ UNCHANGED <<queue, delta, lock, event_this_sec, batch_this_sec, total_sent_events,
                 total_processed_events, clock, dpc, dnow, old_queue, batch,
                 total_metrics_count, log, returned, drainFrom, drainTo>>
  /\ UNCHANGED <<uvars, ivars, mvars>>

\* add, line 52-66: the critical section, from self.queue.lock() to the end of
\* the guard's scope: entry().and_modify().or_insert_with()
AddEntry(w) ==
  /\ wpc[w] = "a_lock"
  /\ lock = Free
  /\ queue' = entry(queue, wevent[w].event_hash_sha256, wevent[w], wnow[w])
  /\ log' = log \o [i \in 1..Len(wevent[w].metrics) |->
                      <<wevent[w].event_hash_sha256, wevent[w].metrics[i]>>]
  /\ wpc' = [wpc EXCEPT ![w] = "a_count"]
  /\ UNCHANGED <<delta, lock, event_this_sec, batch_this_sec, total_sent_events,
                 total_processed_events, clock, wnow, wevent, dpc, dnow, old_queue, batch,
                 total_metrics_count, nextId, returned, drainFrom, drainTo>>
  /\ UNCHANGED <<uvars, ivars, mvars>>

\* add, line 68: event_this_sec.fetch_add(1)
AddCount(w) ==
  /\ wpc[w] = "a_count"
  /\ event_this_sec' = event_this_sec + 1
  /\ wpc' = [wpc EXCEPT ![w] = "idle"]
  /\ wnow' = [wnow EXCEPT ![w] = 0]               \* the call's locals are gone
  /\ wevent' = [wevent EXCEPT ![w] = NoEvent]
  /\ UNCHANGED <<queue, delta, lock, batch_this_sec, total_sent_events,
                 total_processed_events, clock, dpc, dnow, old_queue, batch,
                 total_metrics_count, nextId, log, returned, drainFrom, drainTo>>
  /\ UNCHANGED <<uvars, ivars, mvars>>

\* ----------------------------------------------- queue.rs: process_batch
take_clone(q) == q
take(q) == EmptyMap                     \* what std::mem::take leaves behind

ready_at_boundary(record, now, d) == now >= record.updated_at + d
ready(record, now, d) == now > record.updated_at + d

ReadyKeys(q, now, d) == {k \in DOMAIN q : ready(q[k], now, d)}

remove_none(q, keys) == q
remove(q, keys) == [k \in DOMAIN q \ keys |-> q[k]]

\* the payloads of the records of q, in the order the iteration `order` visits the keys
Payloads(q, order) == [i \in DOMAIN order |-> q[order[i]].payload]

MetricsCount_events(b) == Len(b)
MetricsCount(b) == SumSeq([i \in DOMAIN b |-> Len(b[i].metrics)])

get_queue_size == Cardinality(DOMAIN queue)

\* process_batch, line 72-78
DrainStart ==
  /\ dpc = "sleep"
  /\ dnow' = clock
  /\ batch' = <<>>
  /\ total_metrics_count' = 0
  /\ dpc' = "d_body"
  /\ UNCHANGED <<queue, delta, lock, event_this_sec, batch_this_sec, total_sent_events,
                 total_processed_events, clock, wpc, wnow, wevent, old_queue,
                 nextId, log, returned, drainFrom, drainTo>>
  /\ UNCHANGED <<uvars, ivars, mvars>>

\* process_batch, line 86-89: immediate mode, the map is empty under the lock,
\* early return (the guard is dropped by the return)
DrainEmpty ==
  /\ dpc = "d_body" /\ delta = 0
  /\ lock = Free
  /\ DOMAIN queue = {}
  /\ dpc' = "returned"
  /\ drainTo' = Len(log)
  /\ UNCHANGED <<queue, delta, lock, event_this_sec, batch_this_sec, total_sent_events,
                 total_processed_events, clock, wpc, wnow, wevent, dnow, old_queue, batch,
                 total_metrics_count, nextId, log, returned, drainFrom>>
  /\ UNCHANGED <<uvars, ivars, mvars>>

\* process_batch, line 86-92: lock, std::mem::take under the lock
DrainTake ==
  /\ dpc = "d_body" /\ delta = 0
  /\ lock = Free
  /\ DOMAIN queue # {}
  /\ lock' = Drainer
  /\ old_queue' = queue
  /\ queue' = take(queue)
  /\ dpc' = "d_unlock"
  /\ drainTo' = Len(log)
  /\ UNCHANGED <<delta, event_this_sec, batch_this_sec, total_sent_events,
                 total_processed_events, clock, wpc, wnow, wevent, dnow, batch,
                 total_metrics_count, nextId, log, returned, drainFrom>>
  /\ UNCHANGED <<uvars, ivars, mvars>>

\* process_batch, line 102-115: windowed mode, lock, collect and remove under the lock
DrainWindow ==
  /\ dpc = "d_body" /\ delta > 0
  /\ lock = Free
  /\ lock' = Drainer
  /\ \E order \in Orders(ReadyKeys(queue, dnow, delta)) :
       /\ batch' = Payloads(queue, order)
       /\ total_metrics_count' = MetricsCount(Payloads(queue, order))
       /\ queue' = remove(queue, Range(order))
  /\ dpc' = "d_unlock"
  /\ drainTo' = Len(log)
  /\ UNCHANGED <<delta, event_this_sec, batch_this_sec, total_sent_events,
                 total_processed_events, clock, wpc, wnow, wevent, dnow, old_queue,
                 nextId, log, returned, drainFrom>>
  /\ UNCHANGED <<uvars, ivars, mvars>>

\* queue.rs line 93 / 116: dropping the MutexGuard releases the lock
hold_guard(l) == l
drop_guard(l) == Free

\* process_batch, line 93 (drop(queue)) / line 116 (end of the guard's scope)
DrainUnlock ==
  /\ dpc = "d_unlock"
  /\ lock = Drainer
  /\ lock' = drop_guard(lock)
  /\ dpc' = IF delta = 0 THEN "d_process" ELSE "d_count"
  /\ UNCHANGED <<queue, delta, event_this_sec, batch_this_sec, total_sent_events,
                 total_processed_events, clock, wpc, wnow, wevent, dnow, old_queue, batch,
                 total_metrics_count, nextId, log, returned, drainFrom, drainTo>>
  /\ UNCHANGED <<uvars, ivars, mvars>>

\* process_batch, line 96-99: move the records out of old_queue, outside the lock
DrainProcess ==
  /\ dpc = "d_process"
  /\ \E order \in Orders(DOMAIN old_queue) :
       /\ batch' = Payloads(old_queue, order)
       /\ total_metrics_count' = MetricsCount(Payloads(old_queue, order))
  /\ old_queue' = EmptyMap
  /\ dpc' = "d_count"
  /\ UNCHANGED <<queue, delta, lock, event_this_sec, batch_this_sec, total_sent_events,
                 total_processed_events, clock, wpc, wnow, wevent, dnow,
                 nextId, log, returned, drainFrom, drainTo>>
  /\ UNCHANGED <<uvars, ivars, mvars>>

\* process_batch, line 118-128: counters, return
DrainCount ==
  /\ dpc = "d_count"
  /\ IF batch # <<>>
     THEN /\ batch_this_sec' = batch_this_sec + 1
          /\ total_sent_events' = total_sent_events + total_metrics_count
          /\ total_processed_events' = total_sent_events + total_metrics_count
     ELSE UNCHANGED <<batch_this_sec, total_sent_events, total_processed_events>>
  /\ dpc' = "returned"
  /\ UNCHANGED <<queue, delta, lock, event_this_sec, clock, wpc, wnow, wevent, dnow,
                 old_queue, batch, total_metrics_count, nextId, log, returned,
                 drainFrom, drainTo>>
  /\ UNCHANGED <<uvars, ivars, mvars>>

\* the caller has the batch (main.rs line 220-221) and goes back to sleep
DrainReturn ==
  /\ dpc = "returned"
  /\ returned' = returned \cup Range(batch)
  /\ batch' = <<>>
  /\ dnow' = 0 /\ total_metrics_count' = 0       \* the call's locals are gone
  /\ drainFrom' = drainTo
  /\ dpc' = "sleep"
  /\ UNCHANGED <<queue, delta, lock, event_this_sec, batch_this_sec, total_sent_events,
                 total_processed_events, clock, wpc, wnow, wevent, old_queue,
                 nextId, log, drainTo>>
  /\ UNCHANGED <<uvars, ivars, mvars>>

\* ------------------------------------------------------------- the clock
Tick ==
  /\ clock < MaxClock
  /\ clock' = clock + 1
  /\ UNCHANGED <<queue, delta, lock, event_this_sec, batch_this_sec, total_sent_events,
                 total_processed_events, wpc, wnow, wevent, dpc, dnow, old_queue, batch,
                 total_metrics_count, nextId, log, returned, drainFrom, drainTo>>
  /\ UNCHANGED <<uvars, ivars, mvars>>

\* ------------------------------------------------------------------ Spec
InIdle ==
  /\ lpc = "bind" /\ counter = 0 /\ read_this_sec = 0
  /\ alert_rx = [w \in Workers |-> <<>>]
  /\ backlog = [w \in Workers |-> 0]
  /\ alert_txs = {"main", "listener"}
  /\ wk = [w \in Workers |-> "recv"]
  /\ nread = 0 /\ routed = <<>> /\ handled = {}
  /\ lost = {} /\ accept_err = FALSE

MetricsIdle ==
  /\ mpc = "m_sleep"
  /\ event_count = 0 /\ batch_count = 0 /\ read_count = 0
  /\ latest_event_per_sec = 0 /\ latest_batch_per_sec = 0 /\ latest_read_per_sec = 0
  /\ stored = 0

UpIdle ==
  /\ upc = "connecting" /\ remote = "down" /\ backoff = 0 /\ failure = "none"
  /\ batch_rx = <<>> /\ cur = <<>> /\ sent = <<>>
  /\ tx_open = TRUE /\ rx_open = TRUE /\ produced = 0 /\ taken = 0 /\ emitted = {} /\ saw_none = FALSE

Init ==
  /\ queue = EmptyMap
  /\ delta \in {0, 1}
  /\ lock = Free
  /\ event_this_sec = 0 /\ batch_this_sec = 0
  /\ total_sent_events = 0 /\ total_processed_events = 0
  /\ clock = 0
  /\ wpc = [w \in Workers |-> "idle"]
  /\ wnow = [w \in Workers |-> 0]
  /\ wevent = [w \in Workers |-> NoEvent]
  /\ dpc = "sleep" /\ dnow = 0 /\ old_queue = EmptyMap /\ batch = <<>>
  /\ total_metrics_count = 0
  /\ nextId = 1 /\ log = <<>> /\ returned = {}
  /\ drainFrom = 0 /\ drainTo = 0
  /\ UpIdle
  /\ InIdle
  /\ MetricsIdle

Next ==
  \/ \E w \in Workers : AddReadClock(w)
  \/ \E w \in Workers : AddEntry(w)
  \/ \E w \in Workers : AddCount(w)
  \/ DrainStart
  \/ DrainEmpty
  \/ DrainTake
  \/ DrainWindow
  \/ DrainUnlock
  \/ DrainProcess
  \/ DrainCount
  \/ DrainReturn
  \/ Tick

Spec == Init /\ [][Next]_vars

\* ============================================================== uploader
\* main.rs line 146-165: how long the task sleeps after each outcome.
\* res is the outcome of the last await: "connect" (Client::new failed),
\* "stream_open" / "mid_stream" (stream_data returned Err before / after the
\* request stream was open), "server_close" (stream_data returned Ok).
sleep_after_as_documented(res) ==
  IF res \in {"connect", "stream_open"} THEN ConnectBackoff ELSE StreamBackoff
sleep_after(res) ==
  IF res = "connect" THEN ConnectBackoff ELSE StreamBackoff

\* where the task goes when the sleep is over: both loops start over at Client::new
after_sleep_giving_up(res) ==
  IF res = "connect" THEN "connecting" ELSE "stopped"
after_sleep(res) == "connecting"

\* main.rs line 131 / 143 / 158: every request stream gets a clone of the Arc
\* around the one Receiver, so what waits in the channel outlives a stream
fresh_receiver(ch) == <<>>
same_receiver(ch) == ch

\* client.rs line 43: recv takes the batch out of the channel
recv_peek(ch) == ch
recv_rest(ch) == Tail(ch)

\* main.rs line 222: blocking_send puts the batch behind the waiting ones
send_front(ch, b) == <<b>> \o ch
blocking_send(ch, b) == Append(ch, b)

\* the batches the watcher puts on the batch channel: batch n holds one or
\* two events, in the order the drain yielded them
BatchOf(n, k) == [i \in 1..k |-> NewEvent(i, 2 * (n - 1) + i)]
BatchNo(b) == (b[1].metrics[1] + 1) \div 2
Channels ==
  UNION {{c \in [1..n -> {BatchOf(j, k) : j \in 1..n, k \in 1..2}] :
            \A i \in 1..n : \E k \in 1..2 : c[i] = BatchOf(i, k)} : n \in 0..MaxBatches}

\* main.rs line 147: Client::new(..).await, client.rs line 17-30
Connect ==
  /\ upc = "connecting"
  /\ IF remote = "up"
     THEN /\ upc' = "call"
          /\ UNCHANGED <<failure, backoff>>
     ELSE /\ failure' = "connect"
          /\ backoff' = sleep_after("connect")
          /\ upc' = "sleeping"
  /\ UNCHANGED <<remote, batch_rx, cur, sent, tx_open, rx_open, produced, taken, emitted, saw_none>>
  /\ UNCHANGED <<qvars, ivars, mvars>>

\* main.rs line 154 / 160 / 164: tokio::time::sleep is over, loop again
WakeUp ==
  /\ upc = "sleeping"
  /\ upc' = after_sleep(failure)
  /\ backoff' = 0
  /\ UNCHANGED <<remote, failure, batch_rx, cur, sent, tx_open, rx_open, produced, taken, emitted,
                 saw_none>>
  /\ UNCHANGED <<qvars, ivars, mvars>>

\* main.rs line 158, client.rs line 58-69: the streaming call is made; it
\* fails at once when the request stream cannot be opened
StreamOpen ==
  /\ upc = "call"
  /\ IF remote = "up"
     THEN /\ upc' = "streaming"
          /\ UNCHANGED <<failure, backoff>>
     ELSE /\ failure' = "stream_open"
          /\ backoff' = sleep_after("stream_open")
          /\ upc' = "sleeping"
  /\ UNCHANGED <<remote, batch_rx, cur, sent, tx_open, rx_open, produced, taken, emitted, saw_none>>
  /\ UNCHANGED <<qvars, ivars, mvars>>

\* client.rs line 41-44: the request stream takes the next batch of the channel
StreamRecv ==
  /\ upc = "streaming"
  /\ cur = <<>>
  /\ batch_rx # <<>>
  /\ cur' = Head(batch_rx)
  /\ batch_rx' = recv_rest(batch_rx)
  /\ taken' = taken + 1
  /\ UNCHANGED <<upc, remote, backoff, failure, sent, tx_open, rx_open, produced, emitted, saw_none>>
  /\ UNCHANGED <<qvars, ivars, mvars>>

\* client.rs line 48-50: yield the next event of the batch
StreamYield ==
  /\ upc = "streaming"
  /\ cur # <<>>
  /\ sent' = Append(sent, Head(cur))
  /\ cur' = Tail(cur)
  /\ emitted' = IF Tail(cur) = <<>> THEN emitted \cup {BatchNo(cur)} ELSE emitted
  /\ UNCHANGED <<upc, remote, backoff, failure, batch_rx, tx_open, rx_open, produced, taken, saw_none>>
  /\ UNCHANGED <<qvars, ivars, mvars>>

\* client.rs line 43-45 and 52-55: recv gives None on a closed and empty
\* channel, the request stream ends and the call waits for the server's answer
StreamEnd ==
  /\ upc = "streaming"
  /\ cur = <<>>
  /\ batch_rx = <<>>
  /\ ~tx_open
  /\ upc' = "ended"
  /\ saw_none' = TRUE
  /\ UNCHANGED <<remote, backoff, failure, batch_rx, cur, sent, tx_open, rx_open, produced, taken,
                 emitted>>
  /\ UNCHANGED <<qvars, ivars, mvars>>

\* client.rs line 65-68, main.rs line 158-160: the call returns Err while the
\* request stream is open; the stream and the batch it holds are dropped
StreamError ==
  /\ upc \in {"streaming", "ended"}
  /\ failure' = "mid_stream"
  /\ backoff' = sleep_after("mid_stream")
  /\ cur' = <<>>
  /\ batch_rx' = same_receiver(batch_rx)
  /\ upc' = "sleeping"
  /\ UNCHANGED <<remote, sent, tx_open, rx_open, produced, taken, emitted, saw_none>>
  /\ UNCHANGED <<qvars, ivars, mvars>>

\* client.rs line 61-64, main.rs line 161-164: the server answers and ends the
\* call, stream_data returns Ok
ServerClose ==
  /\ upc \in {"streaming", "ended"}
  /\ remote = "up"
  /\ failure' = "server_close"
  /\ backoff' = sleep_after("server_close")
  /\ cur' = <<>>
  /\ batch_rx' = same_receiver(batch_rx)
  /\ upc' = "sleeping"
  /\ UNCHANGED <<remote, sent, tx_open, rx_open, produced, taken, emitted, saw_none>>
  /\ UNCHANGED <<qvars, ivars, mvars>>

\* the remote collector goes away and comes back
RemoteDown ==
  /\ remote = "up"
  /\ remote' = "down"
  /\ UNCHANGED <<upc, backoff, failure, batch_rx, cur, sent, tx_open, rx_open, produced, taken,
                 emitted, saw_none>>
  /\ UNCHANGED <<qvars, ivars, mvars>>

RemoteUp ==
  /\ remote = "down"
  /\ remote' = "up"
  /\ UNCHANGED <<upc, backoff, failure, batch_rx, cur, sent, tx_open, rx_open, produced, taken,
                 emitted, saw_none>>
  /\ UNCHANGED <<qvars, ivars, mvars>>

\* main.rs line 220-222: the watcher thread sends the next non-empty batch
\* (the result of a process_batch call) to the batch channel; blocking_send
\* waits while the channel holds BatchChannelCapacity batches
WatcherSend ==
  /\ tx_open
  /\ produced < MaxBatches
  /\ Len(batch_rx) < BatchChannelCapacity
  /\ \E k \in 1..2 : batch_rx' = blocking_send(batch_rx, BatchOf(produced + 1, k))
  /\ produced' = produced + 1
  /\ UNCHANGED <<upc, remote, backoff, failure, cur, sent, tx_open, rx_open, taken, emitted, saw_none>>
  /\ UNCHANGED <<qvars, ivars, mvars>>

\* every Sender of the batch channel is dropped
DropSenders ==
  /\ tx_open
  /\ tx_open' = FALSE
  /\ UNCHANGED <<upc, remote, backoff, failure, batch_rx, cur, sent, rx_open, produced, taken,
                 emitted, saw_none>>
  /\ UNCHANGED <<qvars, ivars, mvars>>

InitUp ==
  /\ queue = EmptyMap
  /\ delta = 0
  /\ lock = Free
  /\ event_this_sec = 0 /\ batch_this_sec = 0
  /\ total_sent_events = 0 /\ total_processed_events = 0
  /\ clock = 0
  /\ wpc = [w \in Workers |-> "idle"]
  /\ wnow = [w \in Workers |-> 0]
  /\ wevent = [w \in Workers |-> NoEvent]
  /\ dpc = "sleep" /\ dnow = 0 /\ old_queue = EmptyMap /\ batch = <<>>
  /\ total_metrics_count = 0
  /\ nextId = 1 /\ log = <<>> /\ returned = {}
  /\ drainFrom = 0 /\ drainTo = 0
  /\ upc = "connecting"
  /\ remote \in {"up", "down"}
  /\ backoff = 0
  /\ failure = "none"
  /\ batch_rx \in Channels
  /\ cur = <<>>
  /\ sent = <<>>
  /\ tx_open = TRUE
  /\ rx_open = TRUE
  /\ produced = Len(batch_rx)
  /\ taken = 0
  /\ emitted = {}
  /\ saw_none = FALSE
  /\ InIdle
  /\ MetricsIdle

NextUp ==
  \/ Connect
  \/ WakeUp
  \/ StreamOpen
  \/ StreamRecv
  \/ StreamYield
  \/ StreamError
  \/ ServerClose
  \/ RemoteDown
  \/ RemoteUp
  \/ WatcherSend

SpecUp == InitUp /\ [][NextUp]_vars

\* the tokio runtime keeps polling the uploader task: a connection attempt
\* resolves, a sleep ends, a call that was made is answered or opened
FairUp ==
  /\ SpecUp
  /\ WF_vars(Connect)
  /\ WF_vars(WakeUp)
  /\ WF_vars(StreamOpen)

\* ... and an open request stream is polled: it takes the batch that waits in
\* the channel and yields the events of the batch it holds
FairStream ==
  /\ FairUp
  /\ WF_vars(StreamRecv)
  /\ WF_vars(StreamYield)

\* the uploader with a batch channel whose senders can all be dropped
NextClose ==
  \/ NextUp
  \/ DropSenders
  \/ StreamEnd

SpecClose == InitUp /\ [][NextClose]_vars

\* ================================================================ ingest
\* A line of the socket. `id` names the line (its packet fields end up in the
\* Metric); a line is well-formed JSON or not, carries a top-level metadata
\* object with a sensor_id or none, and an alert object <<gid, signature_id,
\* rev>> or none; read_at is the time its metadata carries.
Times == {0, 1}
Rules == {<<1, 2100498, 9>>, <<1, 2001219, 20>>}
Lines(n) ==
  {[id |-> n, wellformed |-> FALSE, metadata |-> "absent", alert |-> <<>>, read_at |-> 0]}
  \cup [id : {n}, wellformed : {TRUE}, metadata : {"absent", "upstream"},
        alert : {<<>>} \cup Rules, read_at : {0}]

\* the lines of alerts whose metadata carries any of the times
StampedLines(n) ==
  [id : {n}, wellformed : {TRUE}, metadata : {"upstream"}, alert : Rules, read_at : Times]

\* the older lines that wait in a channel before the listener connects: lines
\* that do not parse
OldLines ==
  {[id |-> 0, wellformed |-> FALSE, metadata |-> "absent", alert |-> <<>>, read_at |-> 0]}

\* simd_json::from_slice::<SuricataAlert>: SuricataAlert.metadata is a required
\* field (types.rs line 21, no serde default), alert is an Option
from_slice(line) ==
  IF line.wellformed /\ line.metadata # "absent"
  THEN [ok |-> TRUE,
        value |-> [metadata |-> [sensor_id |-> line.metadata, sensor_version |-> "1.0",
                                 read_at |-> line.read_at],
                   alert |-> line.alert, packet |-> line.id]]
  ELSE [ok |-> FALSE]

\* main.rs line 187
keep_sensor_id(alert, id) == alert
set_sensor_id(alert, id) == [alert EXCEPT !.metadata.sensor_id = id]

\* processor.rs line 32: format!("{}:{}:{}", gid, signature_id, rev)
snort_rule(alert) ==
  ToString(alert[1]) \o ":" \o ToString(alert[2]) \o ":" \o ToString(alert[3])

\* processor.rs line 141-148: SHA-256 over the Debug text of the event, taken
\* as free of collisions: the hash names the fields it is computed from (the
\* Debug text prints every field of the event)
generate_hash_sha256(payload) ==
  <<payload.metrics, payload.sensor_id, payload.sensor_version, payload.snort_rule,
    payload.event_read_at>>

\* processor.rs line 15: `metrics: vec![]`, the Metric is built after the hash
metrics_attached(metric) == <<metric>>
metrics_before_hash(metric) == <<>>

\* processor.rs line 15-41: the event built from the alert, hashed while its
\* metric sequence is still empty
SensorEventOf(data) ==
  LET sensor_event == [metrics |-> metrics_before_hash(data.packet),
                       event_metrics_count |-> 1,
                       event_read_at |-> data.metadata.read_at,
                       sensor_id |-> data.metadata.sensor_id,
                       sensor_version |-> data.metadata.sensor_version,
                       snort_rule |-> IF data.alert = <<>> THEN "0:0:0"
                                      ELSE snort_rule(data.alert)]
  IN [event_hash_sha256 |-> generate_hash_sha256(sensor_event)] @@ sensor_event

\* processor.rs line 5-11 and 41-128: nothing for a record without alert, else
\* the event and the Metric of the packet
convert_unchecked(data) ==
  [some |-> TRUE, event |-> SensorEventOf(data), metric |-> data.packet]
convert_suricata_alert_to_sensor_event(data) ==
  IF data.alert = <<>>
  THEN [some |-> FALSE]
  ELSE [some |-> TRUE, event |-> SensorEventOf(data), metric |-> data.packet]

\* listener.rs line 65
first_sender(c, num_workers) == 0
select_sender(c, num_workers) == c % num_workers

\* main.rs line 124, listener.rs line 67: send on a sync_channel goes through
\* while the channel holds fewer lines than its capacity, and waits otherwise
send_room_plus(held) == held <= RawLineCapacity
send_room(held) == held < RawLineCapacity

\* listener.rs line 67-70: a failed send ends the reading of the connection
on_send_error_continue(pc) == pc
on_send_error(pc) == "accept"

\* listener.rs line 74-77: a read error is logged, the loop goes on
on_read_error_break(pc) == "accept"
on_read_error(pc) == pc

\* the lines a raw-line channel holds
Held(w) == backlog[w] + Len(alert_rx[w])

\* listener.rs line 32-36: unlinking the old socket file or binding fails and
\* start returns Err (the thread ends and drops its clone of the senders), or
\* the socket is bound
ListenerBind ==
  /\ lpc = "bind"
  /\ \E bound \in BOOLEAN :
       IF bound
       THEN lpc' = "accept" /\ UNCHANGED alert_txs
       ELSE lpc' = "ended" /\ alert_txs' = alert_txs \ {"listener"}
  /\ UNCHANGED <<counter, read_this_sec, alert_rx, backlog, wk, nread, routed, handled,
                 lost, accept_err>>
  /\ UNCHANGED <<qvars, uvars, mvars>>

\* listener.rs line 49-60: a connection is accepted
ListenerAccept ==
  /\ lpc = "accept"
  /\ lpc' = "read"
  /\ counter' = 0
  /\ routed' = <<>>
  /\ UNCHANGED <<read_this_sec, alert_rx, backlog, alert_txs, wk, nread, handled, lost,
                 accept_err>>
  /\ UNCHANGED <<qvars, uvars, mvars>>

\* listener.rs line 82-84: accept fails, the error is logged and the loop over
\* listener.incoming() goes on
ListenerAcceptError ==
  /\ lpc = "accept"
  /\ ~accept_err
  /\ accept_err' = TRUE
  /\ UNCHANGED <<lpc, counter, read_this_sec, alert_rx, backlog, alert_txs, wk, nread,
                 routed, handled, lost>>
  /\ UNCHANGED <<qvars, uvars, mvars>>

\* listener.rs line 62-78: the reader produces the next item of the connection,
\* a line or a read error
ListenerLine ==
  /\ lpc = "read"
  /\ nread < MaxLines
  /\ nread' = nread + 1
  /\ \E ok \in BOOLEAN : \E line \in Lines(nread + 1) :
       IF ok
       THEN LET idx == select_sender(counter, NumWorkers) IN
            IF wk[idx + 1] = "exited"
            THEN \* send fails: the receiver is gone
                 /\ lpc' = on_send_error(lpc)
                 /\ lost' = lost \cup {line.id}
                 /\ UNCHANGED <<counter, read_this_sec, alert_rx, routed>>
            ELSE /\ send_room(Held(idx + 1))
                 /\ alert_rx' = [alert_rx EXCEPT ![idx + 1] = Append(@, line)]
                 /\ counter' = counter + 1
                 /\ read_this_sec' = read_this_sec + 1
                 /\ routed' = Append(routed, idx + 1)
                 /\ UNCHANGED <<lpc, lost>>
       ELSE /\ lpc' = on_read_error(lpc)
            /\ UNCHANGED <<counter, read_this_sec, alert_rx, routed, lost>>
  /\ UNCHANGED <<backlog, alert_txs, wk, handled, accept_err>>
  /\ UNCHANGED <<qvars, uvars, mvars>>

\* listener.rs line 79-80: end of file on the connection
ListenerEOF ==
  /\ lpc = "read"
  /\ lpc' = "accept"
  /\ UNCHANGED <<counter, read_this_sec, alert_rx, backlog, alert_txs, wk, nread, routed,
                 handled, lost, accept_err>>
  /\ UNCHANGED <<qvars, uvars, mvars>>

\* main.rs line 178-201: one turn of `for line in worker_rx`: the worker takes
\* the next line (an older one first, of which at most MaxOld are followed),
\* parses it, overwrites the sensor id, normalizes, attaches the Metric and
\* calls add (queue.rs line 42-69); the loop ends when the channel is empty and
\* no sender is left
WorkerLine(w) ==
  /\ wk[w] = "recv"
  /\ IF Held(w) > 0
     THEN /\ backlog[w] > 0 => backlog[w] + MaxOld >= RawLineCapacity
          /\ \E line \in (IF backlog[w] > 0 THEN OldLines ELSE {Head(alert_rx[w])}) :
               LET alert_result == from_slice(line)
                   found == IF alert_result.ok
                            THEN convert_suricata_alert_to_sensor_event(
                                   set_sensor_id(alert_result.value, conf_sensor_id))
                            ELSE [some |-> FALSE]
                   event == [found.event EXCEPT !.metrics = Append(@, found.metric)]
               IN IF found.some
                  THEN /\ lock = Free
                       /\ queue' = entry(queue, event.event_hash_sha256, event, clock)
                       /\ event_this_sec' = event_this_sec + 1
                       /\ handled' = handled \cup
                                       {[line |-> line, worker |-> w, added |-> <<event>>]}
                  ELSE /\ handled' = handled \cup
                                       {[line |-> line, worker |-> w, added |-> <<>>]}
                       /\ UNCHANGED <<queue, event_this_sec>>
          /\ IF backlog[w] > 0
             THEN backlog' = [backlog EXCEPT ![w] = @ - 1] /\ UNCHANGED alert_rx
             ELSE alert_rx' = [alert_rx EXCEPT ![w] = Tail(@)] /\ UNCHANGED backlog
          /\ UNCHANGED wk
     ELSE /\ alert_txs = {}
          /\ wk' = [wk EXCEPT ![w] = "exited"]
          /\ UNCHANGED <<alert_rx, backlog, handled, queue, event_this_sec>>
  /\ UNCHANGED <<lpc, counter, read_this_sec, alert_txs, nread, routed, lost, accept_err>>
  /\ UNCHANGED <<delta, lock, batch_this_sec, total_sent_events, total_processed_events,
                 clock, wpc, wnow, wevent, dpc, dnow, old_queue, batch,
                 total_metrics_count, nextId, log, returned, drainFrom, drainTo>>
  /\ UNCHANGED <<uvars, mvars>>

\* a worker thread ends by a panic (an unwrap in add fails): its receiver and
\* the lines that wait in it are gone
WorkerGone(w) ==
  /\ wk[w] = "recv"
  /\ wk' = [wk EXCEPT ![w] = "exited"]
  /\ alert_rx' = [alert_rx EXCEPT ![w] = <<>>]
  /\ backlog' = [backlog EXCEPT ![w] = 0]
  /\ UNCHANGED <<lpc, counter, read_this_sec, alert_txs, nread, routed, handled, lost,
                 accept_err>>
  /\ UNCHANGED <<qvars, uvars, mvars>>

\* main.rs line 134: the queue is built with delta 0
InitIn == Init /\ delta = 0

NextIn ==
  \/ ListenerBind
  \/ ListenerAccept
  \/ ListenerLine
  \/ ListenerEOF
  \/ \E w \in Workers : WorkerLine(w)

SpecIn == InitIn /\ [][NextIn]_vars

\* the same with the channel of the first worker one line short of full:
\* RawLineCapacity - 1 older lines wait in it
InitFull ==
  /\ queue = EmptyMap
  /\ delta = 0
  /\ lock = Free
  /\ event_this_sec = 0 /\ batch_this_sec = 0
  /\ total_sent_events = 0 /\ total_processed_events = 0
  /\ clock = 0
  /\ wpc = [w \in Workers |-> "idle"]
  /\ wnow = [w \in Workers |-> 0]
  /\ wevent = [w \in Workers |-> NoEvent]
  /\ dpc = "sleep" /\ dnow = 0 /\ old_queue = EmptyMap /\ batch = <<>>
  /\ total_metrics_count = 0
  /\ nextId = 1 /\ log = <<>> /\ returned = {}
  /\ drainFrom = 0 /\ drainTo = 0
  /\ UpIdle
  /\ MetricsIdle
  /\ lpc = "bind" /\ counter = 0 /\ read_this_sec = 0
  /\ alert_rx = [w \in Workers |-> <<>>]
  /\ backlog = [w \in Workers |-> IF w = 1 THEN RawLineCapacity - 1 ELSE 0]
  /\ alert_txs = {"main", "listener"}
  /\ wk = [w \in Workers |-> "recv"]
  /\ nread = 0 /\ routed = <<>> /\ handled = {}
  /\ lost = {} /\ accept_err = FALSE

SpecFull == InitFull /\ [][NextIn]_vars

\* the workers alone, each with two lines of stamped alerts in its channel
HashInputs ==
  {[w \in Workers |-> [i \in 1..2 |-> pick[w][i]]] :
     pick \in [Workers -> [1..2 -> Times \X Rules]]}
InitHash ==
  /\ queue = EmptyMap
  /\ delta = 0
  /\ lock = Free
  /\ event_this_sec = 0 /\ batch_this_sec = 0
  /\ total_sent_events = 0 /\ total_processed_events = 0
  /\ clock = 0
  /\ wpc = [w \in Workers |-> "idle"]
  /\ wnow = [w \in Workers |-> 0]
  /\ wevent = [w \in Workers |-> NoEvent]
  /\ dpc = "sleep" /\ dnow = 0 /\ old_queue = EmptyMap /\ batch = <<>>
  /\ total_metrics_count = 0
  /\ nextId = 1 /\ log = <<>> /\ returned = {}
  /\ drainFrom = 0 /\ drainTo = 0
  /\ UpIdle
  /\ MetricsIdle
  /\ lpc = "bind" /\ counter = 0 /\ read_this_sec = 0
  /\ \E input \in HashInputs :
       alert_rx = [w \in Workers |->
                     [i \in 1..2 |->
                        [id |-> 2 * (w - 1) + i, wellformed |-> TRUE,
                         metadata |-> "upstream", alert |-> input[w][i][2],
                         read_at |-> input[w][i][1]]]]
  /\ backlog = [w \in Workers |-> 0]
  /\ alert_txs = {"main", "listener"}
  /\ wk = [w \in Workers |-> "recv"]
  /\ nread = 0 /\ routed = <<>> /\ handled = {}
  /\ lost = {} /\ accept_err = FALSE

NextHash == \E w \in Workers : WorkerLine(w)

SpecHash == InitHash /\ [][NextHash]_vars

\* the listener while the workers take no line, with accept errors and
\* worker threads that end
NextDown ==
  \/ ListenerBind
  \/ ListenerAccept
  \/ ListenerAcceptError
  \/ ListenerLine
  \/ ListenerEOF
  \/ \E w \in Workers : WorkerGone(w)

SpecDown == InitIn /\ [][NextDown]_vars

\* =============================================================== metrics
\* queue.rs line 132 / 136, listener.rs line 96: swap(0) leaves 0 behind
left_by_load(v) == v
left_by_swap(v) == 0

\* queue.rs line 132: event_count = event_this_sec.swap(0)
MetricsSwapEvents ==
  /\ mpc = "m_sleep"
  /\ event_count' = event_this_sec
  /\ event_this_sec' = left_by_swap(event_this_sec)
  /\ mpc' = "m_store_e"
  /\ UNCHANGED <<batch_count, read_count, latest_event_per_sec, latest_batch_per_sec,
                 latest_read_per_sec, stored>>
  /\ UNCHANGED <<queue, delta, lock, batch_this_sec, total_sent_events,
                 total_processed_events, clock, wpc, wnow, wevent, dpc, dnow, old_queue,
                 batch, total_metrics_count, nextId, log, returned, drainFrom, drainTo>>
  /\ UNCHANGED <<uvars, ivars>>

\* queue.rs line 133-134: latest_event_per_sec.store(event_count)
MetricsStoreEvents ==
  /\ mpc = "m_store_e"
  /\ latest_event_per_sec' = event_count
  /\ stored' = stored + event_count
  /\ event_count' = 0
  /\ mpc' = "m_swap_b"
  /\ UNCHANGED <<batch_count, read_count, latest_batch_per_sec, latest_read_per_sec>>
  /\ UNCHANGED <<qvars, uvars, ivars>>

\* queue.rs line 136: batch_count = batch_this_sec.swap(0)
MetricsSwapBatches ==
  /\ mpc = "m_swap_b"
  /\ batch_count' = batch_this_sec
  /\ batch_this_sec' = left_by_swap(batch_this_sec)
  /\ mpc' = "m_store_b"
  /\ UNCHANGED <<event_count, read_count, latest_event_per_sec, latest_batch_per_sec,
                 latest_read_per_sec, stored>>
  /\ UNCHANGED <<queue, delta, lock, event_this_sec, total_sent_events,
                 total_processed_events, clock, wpc, wnow, wevent, dpc, dnow, old_queue,
                 batch, total_metrics_count, nextId, log, returned, drainFrom, drainTo>>
  /\ UNCHANGED <<uvars, ivars>>

\* queue.rs line 137-138: latest_batch_per_sec.store(batch_count)
MetricsStoreBatches ==
  /\ mpc = "m_store_b"
  /\ latest_batch_per_sec' = batch_count
  /\ batch_count' = 0
  /\ mpc' = "m_swap_r"
  /\ UNCHANGED <<event_count, read_count, latest_event_per_sec, latest_read_per_sec, stored>>
  /\ UNCHANGED <<qvars, uvars, ivars>>

\* listener.rs line 96: count = read_this_sec.swap(0)
ListenerSwapReads ==
  /\ mpc = "m_swap_r"
  /\ read_count' = read_this_sec
  /\ read_this_sec' = left_by_swap(read_this_sec)
  /\ mpc' = "m_store_r"
  /\ UNCHANGED <<event_count, batch_count, latest_event_per_sec, latest_batch_per_sec,
                 latest_read_per_sec, stored>>
  /\ UNCHANGED <<lpc, counter, alert_rx, backlog, alert_txs, wk, nread, routed, handled,
                 lost, accept_err>>
  /\ UNCHANGED <<qvars, uvars>>

\* listener.rs line 97, main.rs line 234: latest_read_per_sec.store(count),
\* then the thread sleeps a second
ListenerStoreReads ==
  /\ mpc = "m_store_r"
  /\ latest_read_per_sec' = read_count
  /\ read_count' = 0
  /\ mpc' = "m_sleep"
  /\ UNCHANGED <<event_count, batch_count, latest_event_per_sec, latest_batch_per_sec, stored>>
  /\ UNCHANGED <<qvars, uvars, ivars>>

\* the parser workers' adds against the metrics updater thread
NextMetrics ==
  \/ \E w \in Workers : AddReadClock(w)
  \/ \E w \in Workers : AddEntry(w)
  \/ \E w \in Workers : AddCount(w)
  \/ MetricsSwapEvents
  \/ MetricsStoreEvents
  \/ MetricsSwapBatches
  \/ MetricsStoreBatches
  \/ ListenerSwapReads
  \/ ListenerStoreReads

SpecMetrics == InitIn /\ [][NextMetrics]_vars

\* =============================================================== watcher
\* main.rs line 220: only a non-empty drain result is sent
should_send_always(b) == TRUE
should_send(b) == b # <<>>

\* a batch channel that holds n batches of earlier drains (one event each,
\* what it is does not matter here)
Waiting(n) == [i \in 1..n |-> <<NewEvent(0, 0)>>]

\* main.rs line 219-221: process_batch returned nothing, sleep again
WatcherSkip ==
  /\ dpc = "returned"
  /\ ~should_send(batch)
  /\ returned' = returned \cup Range(batch)
  /\ batch' = <<>>
  /\ dnow' = 0 /\ total_metrics_count' = 0
  /\ drainFrom' = drainTo
  /\ dpc' = "sleep"
  /\ UNCHANGED <<queue, delta, lock, event_this_sec, batch_this_sec, total_sent_events,
                 total_processed_events, clock, wpc, wnow, wevent, old_queue,
                 nextId, log, drainTo>>
  /\ UNCHANGED <<uvars, ivars, mvars>>

\* main.rs line 220-225: blocking_send of the drain result: it waits while the
\* channel holds BatchChannelCapacity batches, and fails once the receiver is
\* gone, which ends the loop
WatcherSendBatch ==
  /\ dpc = "returned"
  /\ should_send(batch)
  /\ IF rx_open
     THEN /\ Len(batch_rx) < BatchChannelCapacity
          /\ batch_rx' = blocking_send(batch_rx, batch)
          /\ produced' = produced + 1
          /\ dpc' = "sleep"
     ELSE /\ dpc' = "stopped"
          /\ UNCHANGED <<batch_rx, produced>>
  /\ returned' = returned \cup Range(batch)
  /\ batch' = <<>>
  /\ dnow' = 0 /\ total_metrics_count' = 0
  /\ drainFrom' = drainTo
  /\ UNCHANGED <<queue, delta, lock, event_this_sec, batch_this_sec, total_sent_events,
                 total_processed_events, clock, wpc, wnow, wevent, old_queue,
                 nextId, log, drainTo>>
  /\ UNCHANGED <<upc, remote, backoff, failure, cur, sent, tx_open, rx_open, taken, emitted,
                 saw_none>>
  /\ UNCHANGED <<ivars, mvars>>

\* the Receiver of the batch channel is dropped
DropReceiver ==
  /\ rx_open
  /\ rx_open' = FALSE
  /\ UNCHANGED <<upc, remote, backoff, failure, batch_rx, cur, sent, tx_open, produced, taken,
                 emitted, saw_none>>
  /\ UNCHANGED <<qvars, ivars, mvars>>

\* main.rs line 134 and 216-228: the queue in immediate mode, the workers'
\* adds and the watcher thread, while the remote is down and the uploader
\* takes nothing out of the batch channel
InitWatch ==
  /\ queue = EmptyMap
  /\ delta = 0
  /\ lock = Free
  /\ event_this_sec = 0 /\ batch_this_sec = 0
  /\ total_sent_events = 0 /\ total_processed_events = 0
  /\ clock = 0
  /\ wpc = [w \in Workers |-> "idle"]
  /\ wnow = [w \in Workers |-> 0]
  /\ wevent = [w \in Workers |-> NoEvent]
  /\ dpc = "sleep" /\ dnow = 0 /\ old_queue = EmptyMap /\ batch = <<>>
  /\ total_metrics_count = 0
  /\ nextId = 1 /\ log = <<>> /\ returned = {}
  /\ drainFrom = 0 /\ drainTo = 0
  /\ upc = "connecting" /\ remote = "down" /\ backoff = 0 /\ failure = "none"
  /\ batch_rx \in {Waiting(0), Waiting(BatchChannelCapacity - 1),
                   Waiting(BatchChannelCapacity)}
  /\ cur = <<>> /\ sent = <<>>
  /\ tx_open = TRUE /\ rx_open = TRUE
  /\ produced = Len(batch_rx) /\ taken = 0 /\ emitted = {} /\ saw_none = FALSE
  /\ InIdle
  /\ MetricsIdle

NextWatch ==
  \/ \E w \in Workers : AddReadClock(w)
  \/ \E w \in Workers : AddEntry(w)
  \/ \E w \in Workers : AddCount(w)
  \/ DrainStart
  \/ DrainEmpty
  \/ DrainTake
  \/ DrainUnlock
  \/ DrainProcess
  \/ DrainCount
  \/ WatcherSkip
  \/ WatcherSendBatch
  \/ DropReceiver

SpecWatch == InitWatch /\ [][NextWatch]_vars

\* a thread that can run does run, the watcher's call goes on to release the
\* lock, and a worker that waits for the lock gets it when it is free again
\* and again (the watcher sleeps 10 ms between two drains)
FairWatch ==
  /\ SpecWatch
  /\ \A w \in Workers : SF_vars(AddEntry(w)) /\ WF_vars(AddCount(w))
  /\ WF_vars(DrainUnlock)

\* ======================================================= queue properties
\* where a metric can be: the indices at which m occurs in a metric sequence
At(metrics, m) == {i \in DOMAIN metrics : metrics[i] = m}

InMap(q, m)  == UNION {{<<k, i>> : i \in At(q[k].payload.metrics, m)} : k \in DOMAIN q}
InSeq(b, m)  == UNION {{<<j, i>> : i \in At(b[j].metrics, m)} : j \in DOMAIN b}
InSet(S, m)  == UNION {{<<e, i>> : i \in At(e.metrics, m)} : e \in S}

\* the number of places that hold metric m
Occurrences(m) ==
  Cardinality(InMap(queue, m)) + Cardinality(InMap(old_queue, m))
    + Cardinality(InSeq(batch, m)) + Cardinality(InSet(returned, m))

\* the metrics whose add has run its critical section
Logged == {log[i][2] : i \in DOMAIN log}

\* the metrics a drain has taken out of the map
Drained == {m \in Logged : InMap(old_queue, m) \cup InSeq(batch, m) \cup InSet(returned, m) # {}}

\* the hashes of the adds whose critical section ran in log positions a+1..b
HashesIn(a, b) == {log[i][1] : i \in (a + 1)..b}
AddsOf(h, a, b) == Cardinality({i \in (a + 1)..b : log[i][1] = h})
EventsOf(b, h) == {j \in DOMAIN b : b[j].event_hash_sha256 = h}
BatchHashes == {batch[j].event_hash_sha256 : j \in DOMAIN batch}

\* C1: under every interleaving of add calls with a drain, a metric whose add
\* has run is in exactly one place (the map, or the events the drain took and
\* returns), and a metric whose add has not run yet is nowhere.
C1_ExactlyOnePlace ==
  \A m \in 1..MaxAdds : Occurrences(m) = IF m \in Logged THEN 1 ELSE 0

\* an add ran between the drain's critical section and its return: the batch
\* holds the earlier metrics and the map the later one
C1_Witness ==
  /\ dpc = "returned" /\ batch # <<>>
  /\ Len(log) > drainTo /\ DOMAIN queue # {}

\* C2 (as stated): at the moment process_batch returns, no key of a returned
\* event is in the map, also with concurrent adds of the same hash.
C2_AbsentAtReturn ==
  dpc = "returned" => BatchHashes \cap DOMAIN queue = {}

\* C2 (amended): when the drain's critical section ends, no key of an event it
\* returns is in the map; a key found in the map at return belongs to a fresh
\* record made only of metrics added after that critical section.
C2_RemovedUnderLock ==
  /\ dpc = "d_unlock" => (DOMAIN old_queue \cup BatchHashes) \cap DOMAIN queue = {}
  /\ dpc = "returned" =>
       \A h \in BatchHashes \cap DOMAIN queue :
         \A i \in DOMAIN queue[h].payload.metrics :
           \E p \in (drainTo + 1)..Len(log) : log[p] = <<h, queue[h].payload.metrics[i]>>

C2_Witness ==
  /\ dpc = "returned"
  /\ BatchHashes \cap DOMAIN queue # {}

\* C3: every record in the map has created_at <= updated_at <= now.
C3_Timestamps ==
  \A k \in DOMAIN queue :
    /\ queue[k].created_at <= queue[k].updated_at
    /\ queue[k].updated_at <= clock

\* the metrics added under hash h and not drained, in the order of the adds
Arrival(h) ==
  LET Pending(e) == e[1] = h /\ e[2] \notin Drained
      s == SelectSeq(log, Pending)
  IN  [i \in DOMAIN s |-> s[i][2]]

\* C4: the metrics of a record are the metrics added under its key since the
\* key was last drained, in add-arrival order, none dropped and none merged.
C4_ArrivalOrder ==
  \A h \in DOMAIN queue : queue[h].payload.metrics = Arrival(h)

C4_Witness ==
  \E h \in DOMAIN queue : Len(queue[h].payload.metrics) >= 2

\* C5: k >= 1 adds of one hash between two immediate-mode drains give exactly
\* one event for that hash in the batch, with k metrics.
C5_Coalesced ==
  (delta = 0 /\ dpc = "returned") =>
    \A h \in Hashes :
      LET k == AddsOf(h, drainFrom, drainTo)
      IN  k >= 1 => /\ Cardinality(EventsOf(batch, h)) = 1
                    /\ \A j \in EventsOf(batch, h) : Len(batch[j].metrics) = k

C5_Witness ==
  /\ delta = 0 /\ dpc = "returned"
  /\ Len(batch) = 1 /\ Len(batch[1].metrics) = 2
  /\ AddsOf(batch[1].event_hash_sha256, drainFrom, drainTo) = 2

C7_MultisetOfHashes ==
  (delta = 0 /\ dpc = "returned") =>
    \A h \in Hashes : Cardinality(EventsOf(batch, h)) = AddsOf(h, drainFrom, drainTo)

\* C7 (amended): the batch holds every distinct hash added since the last
\* drain exactly once, and no other hash.
C7_SetOfHashes ==
  (delta = 0 /\ dpc = "returned") =>
    /\ BatchHashes = HashesIn(drainFrom, drainTo)
    /\ \A h \in Hashes : Cardinality(EventsOf(batch, h)) <= 1

\* two adds of one hash were drained as one event
C7_Witness ==
  /\ delta = 0 /\ dpc = "returned"
  /\ drainTo - drainFrom = 2
  /\ Cardinality(HashesIn(drainFrom, drainTo)) = 1
  /\ Len(batch) = 1

\* C8: every event process_batch returns has event_metrics_count equal to the
\* length of its metric sequence.
C8_CountMirrorsLength ==
  dpc = "returned" =>
    \A j \in DOMAIN batch : batch[j].event_metrics_count = Len(batch[j].metrics)

\* the events the drains have handed to their caller, the one being returned included
Counted == returned \cup (IF dpc = "returned" THEN Range(batch) ELSE {})

RECURSIVE SumMetrics(_)
SumMetrics(S) ==
  IF S = {} THEN 0
  ELSE LET e == CHOOSE x \in S : TRUE IN Len(e.metrics) + SumMetrics(S \ {e})

\* C19: total_sent_events is the sum of the lengths of the metric sequences of
\* all events the drains have returned, and total_processed_events equals
\* total_sent_events whenever no drain is in progress.
C19_SentCountsMetrics ==
  /\ total_sent_events = SumMetrics(Counted)
  /\ dpc \in {"sleep", "returned"} => total_processed_events = total_sent_events

\* a drain returns an event that carries two metrics
C19_Witness ==
  /\ dpc = "returned"
  /\ \E j \in DOMAIN batch : Len(batch[j].metrics) >= 2
  /\ total_sent_events >= 2

\* C20: in windowed mode the step of a drain under the lock returns exactly the
\* records with now > updated_at + delta, removes exactly their keys and
\* leaves every other record as it was.
C20_WindowedDrain ==
  [][(dpc = "d_body" /\ delta > 0 /\ dpc' = "d_unlock") =>
       LET old == {k \in DOMAIN queue : dnow > queue[k].updated_at + delta} IN
         /\ Len(batch') = Cardinality(old)
         /\ {batch'[j] : j \in DOMAIN batch'} = {queue[k].payload : k \in old}
         /\ DOMAIN queue' = DOMAIN queue \ old
         /\ \A k \in DOMAIN queue' : queue'[k] = queue[k]]_vars

\* a windowed drain has returned one record and left one whose window ends
\* exactly now
C20_Witness ==
  /\ dpc = "d_unlock" /\ delta > 0
  /\ batch # <<>>
  /\ \E k \in DOMAIN queue : dnow = queue[k].updated_at + delta

\* C29: in windowed mode the residence time of a record has no upper bound.
\* A merge sets updated_at to the time the add read and leaves created_at
\* alone, and a drain keeps every record whose updated_at is not more than
\* delta ago, however old created_at is: a key merged once in every delta
\* seconds is never returned.
C29_ResidenceUnbounded ==
  [][/\ \A w \in Workers :
          (/\ wpc[w] = "a_lock" /\ wpc'[w] = "a_count"
           /\ wevent[w].event_hash_sha256 \in DOMAIN queue)
          => LET h == wevent[w].event_hash_sha256 IN
               /\ queue'[h].updated_at = wnow[w]
               /\ queue'[h].created_at = queue[h].created_at
     /\ (dpc = "d_body" /\ delta > 0 /\ dpc' = "d_unlock") =>
          \A k \in DOMAIN queue :
            dnow <= queue[k].updated_at + delta =>
              /\ k \in DOMAIN queue' /\ queue'[k] = queue[k]
              /\ \A j \in DOMAIN batch' : batch'[j].event_hash_sha256 # k]_vars

\* a drain has kept a record created more than delta ago, because a merge
\* had moved its updated_at
C29_Witness ==
  /\ dpc = "d_unlock" /\ delta > 0
  /\ \E k \in DOMAIN queue :
       /\ dnow > queue[k].created_at + delta
       /\ dnow <= queue[k].updated_at + delta
       /\ Len(queue[k].payload.metrics) >= 2

\* ==================================================== uploader properties
\* C9: the upload loop never gives up: after every failure the task is back at
\* a connection attempt, and if the remote stays reachable from some point on
\* the task has an open request stream again and again.
C9_NeverGivesUp ==
  /\ (upc = "sleeping") ~> (upc = "connecting")
  /\ (<>[](remote = "up")) => []<>(upc = "streaming")

\* the task has seen a failure after an open stream and holds an open stream again
C9_Witness ==
  /\ upc = "streaming"
  /\ failure \in {"mid_stream", "server_close"}

\* C10 (as stated): a connect failure and a stream-open failure are followed
\* by a 2 second wait, a mid-stream error and a server close by 1 second.
C10_BackoffAsDocumented ==
  upc = "sleeping" =>
    /\ failure \in {"connect", "stream_open"} => backoff = 2
    /\ failure \in {"mid_stream", "server_close"} => backoff = 1

\* C10 (amended): only a connect failure is followed by a 2 second wait; a
\* stream-open failure, a mid-stream error and a server close by 1 second.
C10_BackoffByKind ==
  upc = "sleeping" =>
    /\ failure = "connect" => backoff = 2
    /\ failure \in {"stream_open", "mid_stream", "server_close"} => backoff = 1

C10_Witness ==
  /\ upc = "sleeping"
  /\ failure = "stream_open"
  /\ backoff = 1

\* a connection attempt has been made: it succeeded, or it failed and is slept on
Attempted ==
  \/ upc \in {"call", "streaming"}
  \/ upc = "sleeping" /\ failure = "connect"

\* C11: once the batch channel is closed (every sender dropped, channel empty)
\* and the request stream has read None from it, the uploader terminates: it
\* makes no further connection attempt.
C11_StopsWhenChannelCloses == saw_none => ~Attempted

\* the position in the whole production order of an event a stream emitted
MetricId(e) == e.metrics[1]

\* C12: events are emitted in the order of the drain within a batch and in the
\* order the batches were put on the batch channel across batches.
C12_EmittedInOrder ==
  \A i, j \in DOMAIN sent : i < j => MetricId(sent[i]) < MetricId(sent[j])

\* both events of one batch and an event of a later batch have been emitted
C12_Witness ==
  \E i \in DOMAIN sent :
    /\ i + 2 \in DOMAIN sent
    /\ BatchNo(<<sent[i]>>) = BatchNo(<<sent[i + 1]>>)
    /\ BatchNo(<<sent[i + 1]>>) < BatchNo(<<sent[i + 2]>>)

InChannel(n) == \E i \in DOMAIN batch_rx : BatchNo(batch_rx[i]) = n

\* C13: a break of the stream leaves the read position on the one receiver:
\* the channel holds exactly the batches produced and not yet received, in
\* the order they were produced, whether they were sent before the break or
\* after it; and a stream that stays open (the remote is reachable and the
\* call does not break again) emits every batch that waits in the channel
\* completely.
C13_ChannelSurvivesBreak ==
  /\ [](/\ produced = taken + Len(batch_rx)
        /\ \A i \in DOMAIN batch_rx : BatchNo(batch_rx[i]) = taken + i)
  /\ \A n \in 1..MaxBatches :
       []((InChannel(n) /\ [](upc = "streaming")) => <>(n \in emitted))

\* a batch was emitted completely by a stream opened after a break that had
\* dropped the batch before it
C13_Witness ==
  /\ failure \in {"mid_stream", "server_close"}
  /\ \E n \in emitted : n > 1 /\ n - 1 \notin emitted

\* C21: no drained event is emitted more than once. A batch a request stream
\* has taken is not in the channel any more, an event is emitted only out of
\* the batch the open stream holds, and that is the batch taken last: what a
\* broken stream held and had not emitted is emitted by no later stream.
C21_NoResend ==
  /\ [](/\ \A i, j \in DOMAIN sent : i # j => sent[i] # sent[j]
        /\ \A i \in DOMAIN batch_rx : BatchNo(batch_rx[i]) > taken
        /\ cur # <<>> => BatchNo(cur) = taken)
  /\ [][/\ taken' >= taken
        /\ sent' # sent => /\ cur # <<>>
                           /\ sent' = Append(sent, Head(cur))
                           /\ BatchNo(cur) = taken]_vars

\* a stream broke after the first event of a batch, and a later stream has
\* emitted events of a later batch
C21_Witness ==
  \E i, j \in DOMAIN sent :
    /\ i < j
    /\ BatchNo(<<sent[i]>>) \notin emitted
    /\ BatchNo(<<sent[i]>>) < BatchNo(<<sent[j]>>)
    /\ (cur = <<>> \/ BatchNo(cur) # BatchNo(<<sent[i]>>))

\* ====================================================== ingest properties
\* C14: every event a parser worker adds to the queue has the configured
\* sensor identity as its sensor_id, whatever the line carried.
C14_ConfiguredSensorId ==
  /\ \A h \in handled : h.added # <<>> => h.added[1].sensor_id = conf_sensor_id
  /\ \A k \in DOMAIN queue : queue[k].payload.sensor_id = conf_sensor_id

\* a line that carried another sensor id has made a worker add an event
C14_Witness ==
  \E h \in handled : h.line.metadata = "upstream" /\ h.added # <<>>

\* C15: a well-formed line with an alert object and no top-level metadata
\* object makes the worker add exactly one event, with snort_rule
\* "gid:signature_id:rev", the configured sensor_id and exactly one Metric.
C15_AddsWithoutMetadata ==
  \A h \in handled :
    (h.line.wellformed /\ h.line.alert # <<>> /\ h.line.metadata = "absent") =>
      /\ Len(h.added) = 1
      /\ h.added[1].snort_rule = snort_rule(h.line.alert)
      /\ h.added[1].sensor_id = conf_sensor_id
      /\ Len(h.added[1].metrics) = 1

\* a line that is not JSON, or a JSON record without alert object
Unusable(line) == ~line.wellformed \/ line.alert = <<>>

\* C16: a worker's turn on a line that fails to parse, or that has no alert
\* object, leaves the queue and the add counter as they were, and the worker
\* stays in its loop.
C16_DropsUnusableLine ==
  [][\A w \in Workers :
       (/\ wk[w] = "recv" /\ alert_rx[w] # <<>>
        /\ alert_rx'[w] = Tail(alert_rx[w])
        /\ Unusable(Head(alert_rx[w])))
       => /\ queue' = queue
          /\ event_this_sec' = event_this_sec
          /\ wk'[w] = "recv"]_vars

\* a worker has dropped a line and has added the event of a later line
C16_Witness ==
  \E h1, h2 \in handled :
    /\ h1.worker = h2.worker
    /\ Unusable(h1.line) /\ h1.added = <<>>
    /\ h2.line.id > h1.line.id /\ h2.added # <<>>

\* C17: within a connection the k-th enqueued line (from 0) goes to the sender
\* k mod N, and the counter is the number of lines enqueued: it moves only in
\* the step that enqueues a line (or starts at 0 with a new connection).
C17_RoundRobin ==
  /\ [](lpc = "read" =>
          /\ counter = Len(routed)
          /\ \A k \in 1..Len(routed) : routed[k] = ((k - 1) % NumWorkers) + 1)
  /\ [][/\ \A w \in Workers :
             Len(alert_rx'[w]) > Len(alert_rx[w]) =>
               /\ w = (counter % NumWorkers) + 1
               /\ counter' = counter + 1
        /\ counter' # counter =>
             \/ counter' = 0
             \/ \E w \in Workers : Len(alert_rx'[w]) > Len(alert_rx[w])]_vars

\* the round-robin has wrapped around on one connection
C17_Witness ==
  /\ lpc = "read"
  /\ Len(routed) > NumWorkers

\* C18: once the listener has ended, the raw-line channels are closed (no
\* sender is left), so that the workers' loops end.
C18_ReceiversClose == lpc = "ended" => alert_txs = {}

\* the ids of the lines that wait in a channel or that a worker has taken
InChannels == UNION {{alert_rx[w][i].id : i \in DOMAIN alert_rx[w]} : w \in Workers}
Taken == {h.line.id : h \in handled} \ {0}
Places(id) ==
  Cardinality({<<w, i>> \in Workers \X (1..MaxLines) :
                 i \in DOMAIN alert_rx[w] /\ alert_rx[w][i].id = id})
  + Cardinality({h \in handled : h.line.id = id})

\* C23: a raw-line channel never holds more lines than its capacity; no line
\* is enqueued into a full channel and none is dropped: every line read is in
\* exactly one place, the channel it was sent to or the hands of its worker.
C23_BoundedNoLoss ==
  /\ [](/\ \A w \in Workers : Held(w) <= RawLineCapacity
        /\ lost = {}
        /\ \A id \in 1..nread : Places(id) <= 1
        /\ Cardinality(InChannels \cup Taken) = read_this_sec)
  /\ [][\A w \in Workers :
          Held(w) = RawLineCapacity =>
            /\ Len(alert_rx'[w]) <= Len(alert_rx[w])
            /\ (lpc = "read" /\ select_sender(counter, NumWorkers) + 1 = w) =>
                 (counter' = counter /\ read_this_sec' = read_this_sec)]_vars

\* the listener has filled a channel and its next line goes to that channel
C23_Witness ==
  /\ lpc = "read" /\ nread < MaxLines
  /\ \E w \in Workers :
       /\ select_sender(counter, NumWorkers) + 1 = w
       /\ Held(w) = RawLineCapacity
       /\ alert_rx[w] # <<>>

\* C24: a failed send ends the reading of the connection and counts nothing,
\* an accept error leaves the listener accepting, and the accept loop never
\* ends: after either, a connection is accepted and read.
C24_SendFailureClosesConnection ==
  [][/\ lost' # lost =>
          /\ lpc' = "accept"
          /\ counter' = counter /\ read_this_sec' = read_this_sec
          /\ alert_rx' = alert_rx
     /\ accept_err' # accept_err => lpc' = "accept"
     /\ lpc \in {"accept", "read"} => lpc' \in {"accept", "read"}]_vars

\* a send has failed, an accept error was logged, and a line of a later
\* connection is in a channel
C24_Witness ==
  /\ lost # {} /\ accept_err
  /\ lpc = "read" /\ routed # <<>>
  /\ \E id \in lost : \E later \in InChannels : later > id

\* C25: a read error leaves the listener reading the connection and changes
\* neither the round-robin counter nor the read counter; the reading of a
\* connection ends only at its end of file (or with a failed send).
C25_ReadErrorSkipped ==
  [][/\ (nread' # nread /\ alert_rx' = alert_rx /\ lost' = lost) =>
          /\ lpc' = "read"
          /\ counter' = counter /\ read_this_sec' = read_this_sec
     /\ (lpc = "read" /\ lpc' # "read") =>
          /\ lpc' = "accept"
          /\ nread' = nread \/ lost' # lost]_vars

\* on one connection the first and the third item were enqueued and the
\* second was a read error
C25_Witness ==
  /\ lpc = "read"
  /\ nread = 3 /\ Len(routed) = 2
  /\ InChannels \cup Taken = {1, 3}

\* the alerts a worker has normalized, and the queue records that hold the
\* Metric of a line
Normalized == {h \in handled : h.added # <<>>}
SameIdentity(l1, l2) == l1.alert = l2.alert
SameTimes(l1, l2) == l1.read_at = l2.read_at
RecordOf(id) ==
  {k \in DOMAIN queue :
     \E i \in DOMAIN queue[k].payload.metrics : queue[k].payload.metrics[i] = id}

\* C26 as stated: two Alerts that agree on the identity fields get the same
\* hash. It fails for two Alerts of one rule whose metadata carry different
\* times: event_read_at, event_sent_at and event_received_at are fields of the
\* event and so part of the hashed text.
C26_HashOfIdentityOnly ==
  \A h1, h2 \in Normalized :
    SameIdentity(h1.line, h2.line) =>
      h1.added[1].event_hash_sha256 = h2.added[1].event_hash_sha256

\* C26: the hash is computed over the event with its metric sequence empty
\* and is a function of the identity fields and the metadata times: two
\* Alerts that agree on them and differ in the packet-level fields get the
\* same hash and are together in one queue record.
C26_HashOfEventFields ==
  /\ \A h \in Normalized :
       h.added[1].event_hash_sha256
         = generate_hash_sha256([h.added[1] EXCEPT !.metrics = <<>>])
  /\ \A h1, h2 \in Normalized :
       (SameIdentity(h1.line, h2.line) /\ SameTimes(h1.line, h2.line)) =>
         /\ h1.added[1].event_hash_sha256 = h2.added[1].event_hash_sha256
         /\ RecordOf(h1.line.id) = RecordOf(h2.line.id)
         /\ Cardinality(RecordOf(h1.line.id)) = 1

\* two lines that differ in their packet, of one rule and one time, have been
\* normalized and are the two Metrics of one record
C26_Witness ==
  \E h1, h2 \in Normalized :
    /\ h1.line.id # h2.line.id
    /\ SameIdentity(h1.line, h2.line) /\ SameTimes(h1.line, h2.line)
    /\ \E k \in DOMAIN queue :
         /\ RecordOf(h1.line.id) = {k} /\ RecordOf(h2.line.id) = {k}
         /\ Len(queue[k].payload.metrics) = 2

\* ===================================================== metrics properties
\* add calls that have run to their end (the fetch_add is add's last statement)
Completed == (nextId - 1) - Cardinality({w \in Workers : wpc[w] # "idle"})

\* the snapshot a tick has swapped out and not stored yet
InSnapshot == IF mpc = "m_store_e" THEN event_count ELSE 0

\* C28 (as stated): under any interleaving the values stored to
\* latest_event_per_sec so far plus event_this_sec are the number of completed
\* adds.
C28_StoredPlusCurrent == stored + event_this_sec = Completed

\* C28 (amended): every completed add is counted exactly once: in a value a
\* tick has stored to latest_event_per_sec, in the snapshot a tick has swapped
\* out and is about to store, or in event_this_sec; outside a tick the stored
\* values plus event_this_sec are the number of completed adds, merges included.
C28_CountedOnce == stored + InSnapshot + event_this_sec = Completed

\* two ticks have each stored one add, one of them a merge, and the counter
\* is back at zero
C28_Witness ==
  /\ mpc = "m_sleep"
  /\ stored >= 2 /\ latest_event_per_sec = 1 /\ event_this_sec = 0
  /\ \E k \in DOMAIN queue : Len(queue[k].payload.metrics) >= 2

\* ===================================================== watcher properties
\* the events of the batches the watcher has put on the channel
Real(item) == {e \in Range(item) : e.event_hash_sha256 # 0}

RealItems == {i \in DOMAIN batch_rx : Real(batch_rx[i]) # {}}

\* C22: every item on the batch channel is a non-empty batch, put there as the
\* result of the drain call that had just returned, after which the loop
\* sleeps and drains again before it sends again; no event is in two items;
\* an empty result is not sent; after a failed send the loop has ended and
\* drains no more.
C22_OneDrainOneItem ==
  /\ [](/\ \A i \in DOMAIN batch_rx : batch_rx[i] # <<>>
        /\ \A i, j \in RealItems :
             i # j => Real(batch_rx[i]) \cap Real(batch_rx[j]) = {})
  /\ [][/\ batch_rx' # batch_rx =>
             /\ dpc = "returned" /\ batch # <<>>
             /\ batch_rx' = Append(batch_rx, batch)
             /\ dpc' = "sleep" /\ batch' = <<>>
        /\ (dpc = "returned" /\ batch = <<>>) => batch_rx' = batch_rx
        /\ (dpc = "returned" /\ batch # <<>> /\ ~rx_open /\ dpc' # dpc) => dpc' = "stopped"
        /\ dpc = "stopped" =>
             /\ dpc' = "stopped"
             /\ DOMAIN queue \subseteq DOMAIN queue']_vars

\* the watcher has sent one batch and has ended on the failed send of the next
C22_Witness ==
  /\ dpc = "stopped"
  /\ \E i \in DOMAIN batch_rx : Real(batch_rx[i]) # {}
  /\ returned # {}

\* C27: the queue lock is free whenever the watcher sleeps, waits in
\* blocking_send on a full batch channel, or has ended; and every add that has
\* begun runs to its end, also while the remote is down and the channel full.
C27_AddNeverBlocked ==
  /\ [](dpc \in {"sleep", "returned", "stopped"} => lock = Free)
  /\ \A w \in Workers : (wpc[w] # "idle") ~> (wpc[w] = "idle")

\* the watcher waits on the full channel with a drain result in its hands,
\* and an add has inserted a record since
C27_Witness ==
  /\ dpc = "returned" /\ batch # <<>>
  /\ rx_open /\ Len(batch_rx) = BatchChannelCapacity
  /\ DOMAIN queue # {}
  /\ \A w \in Workers : wpc[w] = "idle"

====
